---- MODULE Spec2Model ----
(***************************************************************************)
(* Model of the per-step settlement engine of the energy cooperative      *)
(* simulation: Cooperative.simulate / Cooperative.simulate_step           *)
(* (src/src/models/cooperative.py) with DecisionInput / DecisionOutput    *)
(* (src/src/models/decision.py).                                          *)
(*                                                                         *)
(* Numbers.  The program computes in Python floats; the model computes in *)
(* exact rationals <<n, d>> (d > 0, lowest terms), i.e. floats are read   *)
(* as reals.  Energy amounts of the inputs are integers (kWh); token      *)
(* amounts are counted in units of 0.1 CT, so that the default mint and   *)
(* burn rates 0.1 CT/kWh are the integer 1, and prices are integers in    *)
(* 0.1 CT/kWh.                                                             *)
(***************************************************************************)
EXTENDS Integers, Sequences, FiniteSets, TLC

VARIABLES
    storages,                 \* self.storages: sequence of [name, capacity, current_level]
    token_balances,           \* self.token_balances: name -> initial balance
    community_token_balance,  \* self.community_token_balance (rational)
    history,                  \* the self.history_* lists, one record field per list
    history_storage,          \* self.history_storage: name -> list of levels
    logs,                     \* self.logs
    steps,                    \* simulate(): argument steps
    p2p_base_price,           \* simulate(): argument p2p_base_price
    hourly_data,              \* simulate(): argument hourly_data
    grid_costs,               \* simulate(): argument grid_costs
    step,                     \* simulate(): loop variable of `for step in range(steps)`
    pc,                       \* simulate(): "running", "done" (returned) or "raised"
    calls,                    \* locals of every completed simulate_step call, at its return
    frame                     \* the simulate_step call in progress: <<>> or <<its locals>>

vars == <<storages, token_balances, community_token_balance, history, history_storage,
          logs, steps, p2p_base_price, hourly_data, grid_costs, step, pc, calls, frame>>

-----------------------------------------------------------------------------
(* Bounds and input sets *)

MaxSteps == 2

\* Default rates of simulate_step, in 0.1 CT per kWh.
token_mint_rate == 1
token_burn_rate == 1

\* Storage configurations (config['storages']): none, one unit, two units.
Unit(n, c, l) == [name |-> n, capacity |-> c, current_level |-> l]

StorageConfigs ==
    { <<>>,
      <<Unit("A", 2, 0)>>,
      <<Unit("A", 2, 0), Unit("B", 2, 0)>>,
      <<Unit("A", 2, 2), Unit("B", 1, 1)>> }

InitialBalances == {0, 4}

P2PPrices == {1, 2}

\* Grid price tables: empty, one entry, two entries with distinct prices.
GridTables ==
    { <<>>,
      <<[purchase |-> 2, sale |-> 1]>>,
      <<[purchase |-> 2, sale |-> 1], [purchase |-> 0, sale |-> 3]>> }

\* (production, consumption) of an hourly record: a surplus of 3, a deficit of 2.
Energies == { <<4, 1>>, <<1, 3>> }

\* Hourly feed of length n; hour and date are the position in the feed.
HourlyFeeds(n) ==
    { [i \in 1..n |-> [hour |-> (i - 1) % 24, date |-> i - 1,
                       production |-> e[i][1], consumption |-> e[i][2]]] :
        e \in [1..n -> Energies] }

\* Bodies the manager agent may answer with (DecisionOutput fields).
Dec(a, s, b, g) ==
    [energy_added_to_storage |-> a, energy_sold_to_grid |-> s,
     energy_bought_from_storages |-> b, energy_bought_from_grid |-> g]

RemoteDecisions ==
    { Dec(3, 0, 1, 0),      \* charges and discharges in one step
      Dec(0, 1, 0, 3),      \* grid sale and grid purchase
      Dec(5, 0, 3, 1),      \* asks for more than any headroom or stored energy
      Dec(-1, -1, -1, -1) } \* negative fields

-----------------------------------------------------------------------------
(* Exact rational arithmetic standing for float arithmetic *)

Abs(x) == IF x < 0 THEN -x ELSE x

RECURSIVE GCD(_, _)
GCD(a, b) == IF b = 0 THEN a ELSE GCD(b, a % b)

Norm(n, d) ==
    LET g == GCD(Abs(n), Abs(d))
        s == IF d < 0 THEN -1 ELSE 1
    IN  <<(s * n) \div g, (s * d) \div g>>

R(i) == <<i, 1>>
RAdd(x, y) == Norm(x[1] * y[2] + y[1] * x[2], x[2] * y[2])
RSub(x, y) == Norm(x[1] * y[2] - y[1] * x[2], x[2] * y[2])
RMul(x, y) == Norm(x[1] * y[1], x[2] * y[2])
RDiv(x, y) == Norm(x[1] * y[2], x[2] * y[1])
RLe(x, y) == x[1] * y[2] <= y[1] * x[2]
RLt(x, y) == x[1] * y[2] < y[1] * x[2]

Min(a, b) == IF a <= b THEN a ELSE b
Max(a, b) == IF a >= b THEN a ELSE b

\* f"{x:.2f}": x rounded to hundredths (ties to even), as a count of hundredths.
Fmt2f(x) ==
    LET n == 100 * x[1]
        q == n \div x[2]
        r == n - q * x[2]
    IN  IF 2 * r < x[2] THEN q
        ELSE IF 2 * r > x[2] THEN q + 1
        ELSE IF q % 2 = 0 THEN q ELSE q + 1

-----------------------------------------------------------------------------
(* Storage (models/storage.py): charge and discharge, capped at the limits *)

\* Storage.charge(amount): the amount accepted.
charge(s, amount) ==
    IF amount <= 0 THEN 0 ELSE Min(amount, s.capacity - s.current_level)

\* Storage.discharge(amount): the amount released.
discharge(s, amount) ==
    IF amount <= 0 THEN 0 ELSE Min(amount, s.current_level)

\* sum(...) over a list of numbers, from position i on
RECURSIVE SumSeq(_, _)
SumSeq(seq, i) == IF i > Len(seq) THEN 0 ELSE seq[i] + SumSeq(seq, i + 1)

\* sum(s.capacity - s.current_level for s in self.storages)
TotalHeadroom(sts) ==
    SumSeq([i \in DOMAIN sts |-> sts[i].capacity - sts[i].current_level], 1)

\* sum(s.current_level for s in self.storages)
TotalStored(sts) == SumSeq([i \in DOMAIN sts |-> sts[i].current_level], 1)

-----------------------------------------------------------------------------
(* simulate_step: reading the inputs, the decision *)

\* hourly_data[step] (Python indexes from 0)
HourlyStep(s) == hourly_data[s + 1]

\* As GridIndex, but always the first entry of the table.
GridIndexFirst(s) == 1

\* grid_costs[step % len(grid_costs)]
GridIndex(s) == (s % Len(grid_costs)) + 1
GridPrice(s) == grid_costs[GridIndex(s)].purchase
SalePrice(s) == grid_costs[GridIndex(s)].sale

EnergySurplus(production, consumption) == Max(0, production - consumption)
EnergyDeficit(production, consumption) == Max(0, consumption - production)

\* As RequestPayload, but reading the token balance from the token_balances
\* dictionary instead of community_token_balance.
RequestPayloadStale(s) ==
    [hour |-> HourlyStep(s).hour,
     production |-> HourlyStep(s).production,
     consumption |-> HourlyStep(s).consumption,
     storage_levels |->
        [n \in {storages[i].name : i \in DOMAIN storages} |->
            LET st == CHOOSE x \in {storages[i] : i \in DOMAIN storages} : x.name = n
            IN  [current_level |-> st.current_level, capacity |-> st.capacity]],
     grid_purchase_price |-> GridPrice(s),
     grid_sale_price |-> SalePrice(s),
     p2p_base_price |-> p2p_base_price,
     token_balance |-> R(token_balances["community"])]

\* The DecisionInput built for step s from the current state.
RequestPayload(s) ==
    [hour |-> HourlyStep(s).hour,
     production |-> HourlyStep(s).production,
     consumption |-> HourlyStep(s).consumption,
     storage_levels |->
        [n \in {storages[i].name : i \in DOMAIN storages} |->
            LET st == CHOOSE x \in {storages[i] : i \in DOMAIN storages} : x.name = n
            IN  [current_level |-> st.current_level, capacity |-> st.capacity]],
     grid_purchase_price |-> GridPrice(s),
     grid_sale_price |-> SalePrice(s),
     p2p_base_price |-> p2p_base_price,
     token_balance |-> community_token_balance]

\* As FallbackDecision, but selling the whole surplus to the grid as well.
FallbackDecisionSellAll(surplus, deficit, sts) ==
    [energy_added_to_storage |-> Min(surplus, TotalHeadroom(sts)),
     energy_sold_to_grid |-> Max(0, surplus),
     energy_bought_from_storages |-> Min(deficit, TotalStored(sts)),
     energy_bought_from_grid |-> Max(0, deficit - Min(deficit, TotalStored(sts)))]

\* As FallbackDecision, but storing the whole surplus whatever the headroom.
FallbackDecisionNoCap(surplus, deficit, sts) ==
    [energy_added_to_storage |-> surplus,
     energy_sold_to_grid |-> Max(0, surplus - Min(surplus, TotalHeadroom(sts))),
     energy_bought_from_storages |-> Min(deficit, TotalStored(sts)),
     energy_bought_from_grid |-> Max(0, deficit - Min(deficit, TotalStored(sts)))]

\* As FallbackDecision, but drawing the whole deficit whatever is stored.
FallbackDecisionDrawAll(surplus, deficit, sts) ==
    [energy_added_to_storage |-> Min(surplus, TotalHeadroom(sts)),
     energy_sold_to_grid |-> Max(0, surplus - Min(surplus, TotalHeadroom(sts))),
     energy_bought_from_storages |-> deficit,
     energy_bought_from_grid |-> Max(0, deficit - Min(deficit, TotalStored(sts)))]

\* As FallbackDecision, but buying the whole deficit from the grid as well.
FallbackDecisionBuyAll(surplus, deficit, sts) ==
    [energy_added_to_storage |-> Min(surplus, TotalHeadroom(sts)),
     energy_sold_to_grid |-> Max(0, surplus - Min(surplus, TotalHeadroom(sts))),
     energy_bought_from_storages |-> Min(deficit, TotalStored(sts)),
     energy_bought_from_grid |-> Max(0, deficit)]

\* The except branch: the default strategy.
FallbackDecision(surplus, deficit, sts) ==
    [energy_added_to_storage |-> Min(surplus, TotalHeadroom(sts)),
     energy_sold_to_grid |-> Max(0, surplus - Min(surplus, TotalHeadroom(sts))),
     energy_bought_from_storages |-> Min(deficit, TotalStored(sts)),
     energy_bought_from_grid |-> Max(0, deficit - Min(deficit, TotalStored(sts)))]

-----------------------------------------------------------------------------
(* simulate_step: the loop `for storage in self.storages` *)

\* Loop state: sts (the storages), rts (remaining_to_store), rtd
\* (remaining_to_discharge), bal (community_token_balance), ebg
\* (energy_bought_from_grid), charged and discharged (charged_energy and
\* discharged_energy of the iteration of each storage, 0 before it), settle
\* (one entry per grid-purchase settlement executed: start, the balance at the
\* start of the token accounting of the iteration; balance and ebg, the
\* balance and the energy_bought_from_grid it met; required, the tokens it
\* required; affordable, the branch it took; bal_after and ebg_after, what it
\* left).

\* As LoopStorage, but adding the whole remaining amount to the level instead
\* of what charge accepted.
LoopStorageUncapped(st, i) ==
    LET charged == IF st.rts > 0 THEN st.rts ELSE 0
        s1 == [st.sts[i] EXCEPT !.current_level = @ + charged]
        discharged == IF st.rtd > 0 THEN discharge(s1, st.rtd) ELSE 0
        s2 == [s1 EXCEPT !.current_level = @ - discharged]
    IN  [st EXCEPT !.sts[i] = s2, !.rts = @ - charged, !.rtd = @ - discharged,
                   !.charged[i] = charged, !.discharged[i] = discharged]

\* Charging and discharging storage i.
LoopStorage(st, i) ==
    LET charged == IF st.rts > 0 THEN charge(st.sts[i], st.rts) ELSE 0
        s1 == [st.sts[i] EXCEPT !.current_level = @ + charged]
        discharged == IF st.rtd > 0 THEN discharge(s1, st.rtd) ELSE 0
        s2 == [s1 EXCEPT !.current_level = @ - discharged]
    IN  [st EXCEPT !.sts[i] = s2, !.rts = @ - charged, !.rtd = @ - discharged,
                   !.charged[i] = charged, !.discharged[i] = discharged]

\* Token steps 1-4: minting and the storage (P2P) and grid-sale flows.
TokensBeforePurchase(bal, ctx) ==
    LET b1 == RAdd(bal, R(Min(ctx.consumption, ctx.production) * token_mint_rate))
        b2 == RAdd(b1, R(ctx.dec.energy_added_to_storage * ctx.p2p))
        b3 == RAdd(b2, R(ctx.dec.energy_sold_to_grid * ctx.sale_price))
    IN  RSub(b3, R(ctx.dec.energy_bought_from_storages * ctx.p2p))

\* The grid purchase that keeps the requested energy when the price is not positive.
GridPurchaseKeepsRequest(st, b4, ctx) ==
    LET required_tokens == RMul(st.ebg, R(ctx.grid_price))
        new == IF RLe(required_tokens, b4)
               THEN [bal |-> RSub(RSub(b4, required_tokens),
                                  RMul(st.ebg, R(token_burn_rate))),
                     ebg |-> st.ebg]
               ELSE [bal |-> R(0),
                     ebg |-> IF ctx.grid_price > 0
                             THEN RDiv(b4, R(ctx.grid_price)) ELSE st.ebg]
        entry == [start |-> st.bal, balance |-> b4, ebg |-> st.ebg,
                  required |-> required_tokens,
                  affordable |-> RLe(required_tokens, b4),
                  bal_after |-> new.bal, ebg_after |-> new.ebg]
    IN  [st EXCEPT !.bal = new.bal, !.ebg = new.ebg, !.settle = Append(@, entry)]

\* Token step 5: the grid purchase with token burning.
GridPurchase(st, b4, ctx) ==
    LET required_tokens == RMul(st.ebg, R(ctx.grid_price))
        new == IF RLe(required_tokens, b4)
               THEN [bal |-> RSub(RSub(b4, required_tokens),
                                  RMul(st.ebg, R(token_burn_rate))),
                     ebg |-> st.ebg]
               ELSE [bal |-> R(0),
                     ebg |-> IF ctx.grid_price > 0
                             THEN RDiv(b4, R(ctx.grid_price)) ELSE R(0)]
        entry == [start |-> st.bal, balance |-> b4, ebg |-> st.ebg,
                  required |-> required_tokens,
                  affordable |-> RLe(required_tokens, b4),
                  bal_after |-> new.bal, ebg_after |-> new.ebg]
    IN  [st EXCEPT !.bal = new.bal, !.ebg = new.ebg, !.settle = Append(@, entry)]

\* The token accounting computed from what the storages accepted and released.
LoopTokensApplied(st, ctx) ==
    GridPurchase(st,
                 TokensBeforePurchase(st.bal,
                     [ctx EXCEPT !.dec.energy_added_to_storage = SumSeq(st.charged, 1),
                                 !.dec.energy_bought_from_storages = SumSeq(st.discharged, 1)]),
                 ctx)

\* The token accounting, as placed in the loop body.
LoopTokens(st, ctx) == GridPurchase(st, TokensBeforePurchase(st.bal, ctx), ctx)

LoopBody(st, i, ctx) == LoopTokens(LoopStorage(st, i), ctx)

\* As ForStorages, but visiting the storages from the last to the first.
RECURSIVE ForStoragesReversed(_, _, _)
ForStoragesReversed(st, i, ctx) ==
    IF i > Len(st.sts) THEN st
    ELSE ForStoragesReversed(LoopBody(st, Len(st.sts) - i + 1, ctx), i + 1, ctx)

RECURSIVE ForStorages(_, _, _)
ForStorages(st, i, ctx) ==
    IF i > Len(st.sts) THEN st ELSE ForStorages(LoopBody(st, i, ctx), i + 1, ctx)

-----------------------------------------------------------------------------
(* simulate_step: the log entry and the history *)

\* The text block of the step: every interpolated value, as formatted.
LogEntry(date, ctx, surplus, deficit, st) ==
    [date |-> date,
     consumption |-> Fmt2f(R(ctx.consumption)),
     production |-> Fmt2f(R(ctx.production)),
     energy_surplus |-> Fmt2f(R(surplus)),
     energy_deficit |-> Fmt2f(R(deficit)),
     energy_added_to_storage |-> Fmt2f(R(ctx.dec.energy_added_to_storage)),
     energy_bought_from_storages |-> Fmt2f(R(ctx.dec.energy_bought_from_storages)),
     energy_bought_from_grid |-> Fmt2f(st.ebg),
     energy_sold_to_grid |-> Fmt2f(R(ctx.dec.energy_sold_to_grid)),
     grid_price |-> Fmt2f(R(ctx.grid_price)),
     sale_price |-> Fmt2f(R(ctx.sale_price)),
     p2p_base_price |-> Fmt2f(R(ctx.p2p)),
     storage_levels |->
        [i \in DOMAIN st.sts |->
            [name |-> st.sts[i].name, level |-> Fmt2f(R(st.sts[i].current_level))]],
     token_balance |-> Fmt2f(st.bal)]

\* As RecordHistory, but without the append to history_energy_deficit.
RecordHistoryNoDeficit(h, ctx, surplus, deficit, st) ==
    [h EXCEPT
        !.consumption = Append(@, ctx.consumption),
        !.production = Append(@, ctx.production),
        !.token_balance = Append(@, st.bal),
        !.p2p_price = Append(@, ctx.p2p),
        !.grid_price = Append(@, ctx.sale_price),
        !.purchase_price = Append(@, ctx.grid_price),
        !.energy_surplus = Append(@, surplus),
        !.energy_sold_to_grid = Append(@, ctx.dec.energy_sold_to_grid),
        !.tokens_gained_from_grid = Append(@, ctx.dec.energy_sold_to_grid * ctx.sale_price)]

\* The appends to the self.history_* lists (history_energy_sold_to_p2p gets none).
RecordHistory(h, ctx, surplus, deficit, st) ==
    [h EXCEPT
        !.consumption = Append(@, ctx.consumption),
        !.production = Append(@, ctx.production),
        !.token_balance = Append(@, st.bal),
        !.p2p_price = Append(@, ctx.p2p),
        !.grid_price = Append(@, ctx.sale_price),
        !.purchase_price = Append(@, ctx.grid_price),
        !.energy_deficit = Append(@, deficit),
        !.energy_surplus = Append(@, surplus),
        !.energy_sold_to_grid = Append(@, ctx.dec.energy_sold_to_grid),
        !.tokens_gained_from_grid = Append(@, ctx.dec.energy_sold_to_grid * ctx.sale_price)]

\* for storage in self.storages: self.history_storage[storage.name].append(level)
RECURSIVE RecordStorage(_, _, _)
RecordStorage(hs, sts, i) ==
    IF i > Len(sts) THEN hs
    ELSE RecordStorage([hs EXCEPT ![sts[i].name] = Append(@, sts[i].current_level)],
                       sts, i + 1)

-----------------------------------------------------------------------------
(* The state after Cooperative(config, initial_token_balance) and the        *)
(* arguments of the simulate call                                            *)

EmptyHistory ==
    [consumption |-> <<>>, production |-> <<>>, token_balance |-> <<>>,
     p2p_price |-> <<>>, grid_price |-> <<>>, purchase_price |-> <<>>,
     energy_deficit |-> <<>>, energy_surplus |-> <<>>,
     energy_sold_to_grid |-> <<>>, energy_sold_to_p2p |-> <<>>,
     tokens_gained_from_grid |-> <<>>]

Names(sts) == {sts[i].name : i \in DOMAIN sts}

Init ==
    /\ storages \in StorageConfigs
    /\ \E b \in InitialBalances :
        /\ community_token_balance = R(b)
        /\ token_balances = [n \in {"community"} \cup Names(storages) |-> b]
    /\ history = EmptyHistory
    /\ history_storage = [n \in Names(storages) |-> <<>>]
    /\ logs = <<>>
    /\ steps \in 0..MaxSteps
    /\ p2p_base_price \in P2PPrices
    /\ \E n \in {steps - 1, steps} \cap Nat : hourly_data \in HourlyFeeds(n)
    /\ grid_costs \in GridTables
    /\ step = 0
    /\ pc = "running"
    /\ calls = <<>>
    /\ frame = <<>>

-----------------------------------------------------------------------------
(* simulate_step(step, ...) as called by simulate *)

\* The inputs of step s that the loop and the records use, with the
\* decision dec.
StepCtx(s, dec) ==
    [consumption |-> HourlyStep(s).consumption, production |-> HourlyStep(s).production,
     p2p |-> p2p_base_price, grid_price |-> GridPrice(s),
     sale_price |-> SalePrice(s), dec |-> dec]

\* The locals at the entry of the loop over the storages.
LoopStart(dec) ==
    [sts |-> storages,
     rts |-> dec.energy_added_to_storage,
     rtd |-> dec.energy_bought_from_storages,
     bal |-> community_token_balance,
     ebg |-> R(dec.energy_bought_from_grid),
     charged |-> [i \in DOMAIN storages |-> 0],
     discharged |-> [i \in DOMAIN storages |-> 0],
     settle |-> <<>>]

\* The end of the step: the log entry, the history, the return.  st is what
\* the loop left, payload the DecisionInput the step built.
RecordStep(dec, fallback, payload, st) ==
    LET hd == HourlyStep(step)
        surplus == EnergySurplus(hd.production, hd.consumption)
        deficit == EnergyDeficit(hd.production, hd.consumption)
        ctx == StepCtx(step, dec)
    IN  /\ storages' = st.sts
        /\ community_token_balance' = st.bal
        /\ logs' = Append(logs, LogEntry(hd.date, ctx, surplus, deficit, st))
        /\ history' = RecordHistory(history, ctx, surplus, deficit, st)
        /\ history_storage' = RecordStorage(history_storage, st.sts, 1)
        /\ calls' = Append(calls,
               [step |-> step,
                request_payload |-> payload,
                decision_output |-> dec,
                fallback |-> fallback,
                energy_surplus |-> surplus,
                energy_deficit |-> deficit,
                grid_price |-> ctx.grid_price,
                sale_price |-> ctx.sale_price,
                remaining_to_store |-> st.rts,
                remaining_to_discharge |-> st.rtd,
                energy_bought_from_grid |-> st.ebg,
                charged |-> st.charged,
                discharged |-> st.discharged,
                settle |-> st.settle])
        /\ step' = step + 1
        /\ UNCHANGED <<token_balances, steps, p2p_base_price, hourly_data, grid_costs, pc>>

\* The step with the decision dec, as one transition; fallback tells whether
\* dec comes from the except branch.
SimulateStep(dec, fallback) ==
    /\ frame = <<>>
    /\ RecordStep(dec, fallback, RequestPayload(step),
                  ForStorages(LoopStart(dec), 1, StepCtx(step, dec)))
    /\ frame' = frame

\* The inputs of the step can be read: hourly_data[step] exists and
\* grid_costs is not empty.
InputsReadable ==
    /\ step < Len(hourly_data)
    /\ Len(grid_costs) > 0

\* The manager agent answers with a decision.
SimulateStepRemote ==
    /\ pc = "running"
    /\ step < steps
    /\ InputsReadable
    /\ \E dec \in RemoteDecisions : SimulateStep(dec, FALSE)

\* The call of the manager agent fails: the default strategy decides.
SimulateStepFallback ==
    /\ pc = "running"
    /\ step < steps
    /\ InputsReadable
    /\ LET hd == HourlyStep(step)
       IN  SimulateStep(FallbackDecision(EnergySurplus(hd.production, hd.consumption),
                                         EnergyDeficit(hd.production, hd.consumption),
                                         storages),
                        TRUE)

\* hourly_data[step] raises IndexError, or step % len(grid_costs) raises
\* ZeroDivisionError: the exception leaves simulate.
SimulateStepRaises ==
    /\ pc = "running"
    /\ step < steps
    /\ ~InputsReadable
    /\ pc' = "raised"
    /\ UNCHANGED <<storages, token_balances, community_token_balance, history,
                   history_storage, logs, steps, p2p_base_price, hourly_data,
                   grid_costs, step, calls, frame>>

\* range(steps) is exhausted: simulate returns.
SimulateReturns ==
    /\ pc = "running"
    /\ step = steps
    /\ pc' = "done"
    /\ UNCHANGED <<storages, token_balances, community_token_balance, history,
                   history_storage, logs, steps, p2p_base_price, hourly_data,
                   grid_costs, step, calls, frame>>

Next ==
    \/ SimulateStepRemote
    \/ SimulateStepFallback
    \/ SimulateStepRaises
    \/ SimulateReturns

Spec == Init /\ [][Next]_vars

-----------------------------------------------------------------------------
(* simulate_step statement by statement: the decision, then for each storage *)
(* its charge and discharge and the token accounting, then the records       *)

\* Where the call goes after the decision or after the body of iteration i - 1.
LoopOrRecord(i) == IF i > Len(storages) THEN "record" ELSE "storage"

\* The decision is obtained: the locals before the loop.
Decide(dec, fallback) ==
    /\ pc = "running"
    /\ frame = <<>>
    /\ step < steps
    /\ InputsReadable
    /\ frame' = <<[at |-> LoopOrRecord(1), i |-> 1, dec |-> dec, fallback |-> fallback,
                   payload |-> RequestPayload(step), st |-> LoopStart(dec)]>>
    /\ UNCHANGED <<storages, token_balances, community_token_balance, history,
                   history_storage, logs, steps, p2p_base_price, hourly_data,
                   grid_costs, step, pc, calls>>

DecideRemote == \E dec \in RemoteDecisions : Decide(dec, FALSE)

DecideFallback ==
    /\ pc = "running"
    /\ frame = <<>>
    /\ step < steps
    /\ InputsReadable
    /\ LET hd == HourlyStep(step)
       IN  Decide(FallbackDecision(EnergySurplus(hd.production, hd.consumption),
                                   EnergyDeficit(hd.production, hd.consumption),
                                   storages),
                  TRUE)

\* Iteration i of the loop: the charge and the discharge of storage i.
StorageOfIteration ==
    /\ Len(frame) = 1
    /\ frame[1].at = "storage"
    /\ LET new == LoopStorage(frame[1].st, frame[1].i)
       IN  /\ storages' = new.sts
           /\ frame' = <<[frame[1] EXCEPT !.st = new, !.at = "tokens"]>>
    /\ UNCHANGED <<token_balances, community_token_balance, history, history_storage,
                   logs, steps, p2p_base_price, hourly_data, grid_costs, step, pc, calls>>

\* Iteration i of the loop: the token accounting.
TokensOfIteration ==
    /\ Len(frame) = 1
    /\ frame[1].at = "tokens"
    /\ LET new == LoopTokens(frame[1].st, StepCtx(step, frame[1].dec))
       IN  /\ community_token_balance' = new.bal
           /\ frame' = <<[frame[1] EXCEPT !.st = new, !.i = @ + 1,
                                          !.at = LoopOrRecord(frame[1].i + 1)]>>
    /\ UNCHANGED <<storages, token_balances, history, history_storage, logs, steps,
                   p2p_base_price, hourly_data, grid_costs, step, pc, calls>>

\* After the loop: the log entry and the history; the call returns.
RecordOfStep ==
    /\ Len(frame) = 1
    /\ frame[1].at = "record"
    /\ RecordStep(frame[1].dec, frame[1].fallback, frame[1].payload, frame[1].st)
    /\ frame' = <<>>

NextStatements ==
    \/ DecideRemote
    \/ DecideFallback
    \/ StorageOfIteration
    \/ TokensOfIteration
    \/ RecordOfStep
    \/ SimulateStepRaises
    \/ SimulateReturns

SpecStatements == Init /\ [][NextStatements]_vars

-----------------------------------------------------------------------------
(* Properties *)

NonNegative(dec) ==
    /\ dec.energy_added_to_storage >= 0
    /\ dec.energy_sold_to_grid >= 0
    /\ dec.energy_bought_from_storages >= 0
    /\ dec.energy_bought_from_grid >= 0

\* Every decision applied so far had four non-negative fields.
AllNonNegative == \A k \in DOMAIN calls : NonNegative(calls[k].decision_output)

\* C1: after every simulate_step, whatever the number of storages and the
\* decisions taken so far (remote or fallback), provided their four fields
\* were non-negative, community_token_balance is >= 0.
C1_BalanceNonNegative ==
    AllNonNegative => RLe(R(0), community_token_balance)

\* C2: in every reachable state every storage unit has
\* 0 <= current_level <= capacity, whatever amounts the decisions asked for;
\* requests beyond the headroom or the stored energy are capped, and the
\* only exceptions that leave simulate come from unreadable inputs.
C2_LevelsWithinCapacity ==
    /\ \A i \in DOMAIN storages :
        /\ 0 <= storages[i].current_level
        /\ storages[i].current_level <= storages[i].capacity
    /\ pc = "raised" => ~InputsReadable

\* C2 witness: a step asked to store and to draw more than the storages could
\* take, and both requests were capped.
C2_Witness ==
    /\ Len(storages) > 0
    /\ \E k \in DOMAIN calls :
        /\ calls[k].remaining_to_store > 0
        /\ calls[k].remaining_to_discharge > 0
        /\ \E i \in DOMAIN storages : calls[k].charged[i] > 0
        /\ \E i \in DOMAIN storages : calls[k].discharged[i] > 0

-----------------------------------------------------------------------------

IsPrefix(s, u) == Len(s) <= Len(u) /\ SubSeq(u, 1, Len(s)) = s

\* The history series the steps append to.
HistorySeries ==
    {"consumption", "production", "token_balance", "p2p_price", "grid_price",
     "purchase_price", "energy_deficit", "energy_surplus", "energy_sold_to_grid",
     "tokens_gained_from_grid"}

\* After N completed steps every series and the log have length N.
HistoryLengths ==
    /\ \A f \in HistorySeries : Len(history[f]) = step
    /\ \A n \in DOMAIN history_storage : Len(history_storage[n]) = step
    /\ DOMAIN history_storage = Names(storages)
    /\ Len(logs) = step

\* Earlier entries are kept as they are.
AppendOnly ==
    /\ \A f \in HistorySeries : IsPrefix(history[f], history'[f])
    /\ \A n \in DOMAIN history_storage : IsPrefix(history_storage[n], history_storage'[n])
    /\ IsPrefix(logs, logs')

\* C3: after N completed steps every history series (each per-storage level
\* series included) and the log sequence have length exactly N; a step
\* appends one entry to each and no earlier entry is ever changed.
C3_HistoryGrowsByOne ==
    /\ []HistoryLengths
    /\ [][AppendOnly]_vars

\* C3 witness: two steps completed on a cooperative with two storages.
C3_Witness ==
    /\ step = 2
    /\ Len(storages) = 2
    /\ Len(logs) = 2
    /\ Len(history.token_balance) = 2

\* Sum of f over the finite set S of its domain.
RECURSIVE SumFn(_, _)
SumFn(f, S) ==
    IF S = {} THEN 0
    ELSE LET x == CHOOSE y \in S : TRUE IN f[x] + SumFn(f, S \ {x})

\* The local heuristic, computed from the decision input p alone.
LocalHeuristic(p) ==
    LET surplus == IF p.production > p.consumption THEN p.production - p.consumption ELSE 0
        deficit == IF p.consumption > p.production THEN p.consumption - p.production ELSE 0
        L == p.storage_levels
        headroom == SumFn([n \in DOMAIN L |-> L[n].capacity - L[n].current_level], DOMAIN L)
        stored == SumFn([n \in DOMAIN L |-> L[n].current_level], DOMAIN L)
        toStore == IF surplus <= headroom THEN surplus ELSE headroom
        fromStore == IF deficit <= stored THEN deficit ELSE stored
    IN  [energy_added_to_storage |-> toStore,
         energy_sold_to_grid |-> surplus - toStore,
         energy_bought_from_storages |-> fromStore,
         energy_bought_from_grid |-> deficit - fromStore]

\* C4: when the remote decision call fails at a step, the decision applied is
\* the local heuristic's (store min(surplus, headroom), sell the rest, draw
\* min(deficit, stored), buy the rest); the step runs to its end and is
\* recorded; no exception leaves simulate because of it.
C4_FallbackIsLocalHeuristic ==
    /\ \A k \in DOMAIN calls :
        calls[k].fallback =>
            LET h == LocalHeuristic(calls[k].request_payload)
                L == calls[k].request_payload.storage_levels
            IN  /\ calls[k].decision_output = h
                /\ k <= Len(logs)
                /\ logs[k].energy_added_to_storage = 100 * h.energy_added_to_storage
                /\ logs[k].energy_sold_to_grid = 100 * h.energy_sold_to_grid
                /\ logs[k].energy_bought_from_storages = 100 * h.energy_bought_from_storages
                /\ history.energy_sold_to_grid[k] = h.energy_sold_to_grid
                /\ \A n \in DOMAIN L : Len(history_storage[n]) >= k
    /\ pc = "raised" => ~InputsReadable

\* C4 witness: a failed call whose fallback stored part of the surplus and
\* sold the rest, followed by another step, and simulate returned.
C4_Witness ==
    /\ pc = "done"
    /\ \E k \in DOMAIN calls :
        /\ calls[k].fallback
        /\ calls[k].decision_output.energy_added_to_storage > 0
        /\ calls[k].decision_output.energy_sold_to_grid > 0
        /\ k < Len(calls)

-----------------------------------------------------------------------------

\* C5: in any step where a grid-purchase settlement meets a balance below
\* energy_bought_from_grid * grid_purchase_price, with a price > 0, the step
\* ends with community_token_balance = 0 and with the applied (logged)
\* energy_bought_from_grid equal to that balance divided by the price, for
\* any number of storage units.  Stated for the steps whose decision has no
\* negative field.
C5_InsolvencyFill ==
    \A k \in DOMAIN calls :
        \A j \in DOMAIN calls[k].settle :
            (/\ NonNegative(calls[k].decision_output)
             /\ ~calls[k].settle[j].affordable
             /\ calls[k].grid_price > 0) =>
                /\ history.token_balance[k] = R(0)
                /\ calls[k].energy_bought_from_grid
                     = RDiv(calls[k].settle[j].balance, R(calls[k].grid_price))
                /\ logs[k].token_balance = 0
                /\ logs[k].energy_bought_from_grid
                     = Fmt2f(RDiv(calls[k].settle[j].balance, R(calls[k].grid_price)))

\* The balance of step k after token steps a-d applied once to the balance
\* the step started with.
BalanceBeforePurchase(k) ==
    LET p == calls[k].request_payload
        d == calls[k].decision_output
        mint == IF p.consumption <= p.production THEN p.consumption ELSE p.production
    IN  RAdd(p.token_balance,
             R(mint * token_mint_rate
               + d.energy_added_to_storage * p.p2p_base_price
               + d.energy_sold_to_grid * p.grid_sale_price
               - d.energy_bought_from_storages * p.p2p_base_price))

\* C6: in each step the token settlement is applied exactly once: when the
\* grid purchase is affordable, the balance after the step is the balance
\* before it + min(consumption, production) * token_mint_rate
\* + energy_added_to_storage * p2p_base_price + energy_sold_to_grid * sale
\* price - energy_bought_from_storages * p2p_base_price
\* - energy_bought_from_grid * (purchase price + token_burn_rate), whatever
\* the number of storage units (zero or several included).  Stated for the
\* steps whose decision has no negative field.
C6_SettlementOncePerStep ==
    \A k \in DOMAIN calls :
        LET p == calls[k].request_payload
            g == calls[k].decision_output.energy_bought_from_grid
        IN  (/\ NonNegative(calls[k].decision_output)
             /\ RLe(R(g * p.grid_purchase_price), BalanceBeforePurchase(k))) =>
                history.token_balance[k]
                  = RSub(BalanceBeforePurchase(k),
                         R(g * p.grid_purchase_price + g * token_burn_rate))

\* C7: the purchase and sale prices of step s, in the decision input, in the
\* token settlement and in the recorded price histories, are those of
\* grid_costs[s mod len(grid_costs)], also when the table is shorter than
\* the number of steps.
C7_CyclicPricing ==
    \A k \in DOMAIN calls :
        LET s == k - 1
            row == grid_costs[(s % Len(grid_costs)) + 1]
        IN  /\ calls[k].step = s
            /\ calls[k].request_payload.grid_purchase_price = row.purchase
            /\ calls[k].request_payload.grid_sale_price = row.sale
            /\ calls[k].grid_price = row.purchase
            /\ calls[k].sale_price = row.sale
            /\ history.purchase_price[k] = row.purchase
            /\ history.grid_price[k] = row.sale
            /\ history.tokens_gained_from_grid[k]
                 = calls[k].decision_output.energy_sold_to_grid * row.sale
            /\ logs[k].grid_price = 100 * row.purchase
            /\ logs[k].sale_price = 100 * row.sale
            /\ Len(calls[k].settle) >= 1 =>
                 calls[k].settle[1].required
                   = R(calls[k].decision_output.energy_bought_from_grid * row.purchase)

\* C7 witness: the table is shorter than the number of steps run, and a step
\* whose index is beyond the table used the wrapped-around row.
C7_Witness ==
    \E k \in DOMAIN calls :
        /\ k > Len(grid_costs)
        /\ calls[k].step >= Len(grid_costs)
        /\ history.purchase_price[k] = grid_costs[1].purchase
        /\ calls[k].request_payload.grid_sale_price = grid_costs[1].sale

\* C8: whenever the local heuristic produces the decision,
\* energy_added_to_storage + energy_sold_to_grid = max(0, production -
\* consumption), whatever the production, consumption and storage state.
C8_FallbackConservation ==
    \A k \in DOMAIN calls :
        calls[k].fallback =>
            LET p == calls[k].request_payload
                d == calls[k].decision_output
            IN  d.energy_added_to_storage + d.energy_sold_to_grid
                  = (IF p.production - p.consumption > 0
                     THEN p.production - p.consumption ELSE 0)

\* C8 witness: fallback decisions with a surplus, one taken with headroom
\* for part of it (some stored, some sold) and one with full storages.
C8_Witness ==
    /\ \E k \in DOMAIN calls :
        /\ calls[k].fallback
        /\ calls[k].decision_output.energy_added_to_storage > 0
        /\ calls[k].decision_output.energy_sold_to_grid > 0
    /\ \E k \in DOMAIN calls :
        /\ calls[k].fallback
        /\ calls[k].decision_output.energy_added_to_storage = 0
        /\ calls[k].decision_output.energy_sold_to_grid > 0
        /\ calls[k].request_payload.storage_levels # <<>>

-----------------------------------------------------------------------------

\* Level of unit i before step k (from the decision input) and after it
\* (from the per-storage history).
LevelBefore(k, i) == calls[k].request_payload.storage_levels[storages[i].name].current_level
LevelAfter(k, i) == history_storage[storages[i].name][k]

\* Total absorbed in step k, and the headroom the step started with.
TotalCharged(k) == SumSeq(calls[k].charged, 1)
HeadroomBefore(k) ==
    SumSeq([i \in DOMAIN storages |-> storages[i].capacity - LevelBefore(k, i)], 1)

\* C9 as claimed: when a step charges X, a unit absorbs energy only if every
\* earlier-listed unit is at capacity after the step, and the total absorbed
\* is min(X, total headroom); a unit is discharged only if every
\* earlier-listed unit is empty after the step.
C9_GreedyAfterStep ==
    \A k \in DOMAIN calls :
        /\ \A i \in DOMAIN storages :
            calls[k].charged[i] > 0 =>
                \A j \in 1..(i - 1) : LevelAfter(k, j) = storages[j].capacity
        /\ calls[k].decision_output.energy_added_to_storage > 0 =>
            TotalCharged(k)
              = Min(calls[k].decision_output.energy_added_to_storage, HeadroomBefore(k))
        /\ \A i \in DOMAIN storages :
            calls[k].discharged[i] > 0 =>
                \A j \in 1..(i - 1) : LevelAfter(k, j) = 0

\* C9 (amended): when a step charges X, a unit absorbs energy only if every
\* earlier-listed unit was filled to capacity by its own charge in that step
\* (so it is at capacity after the step unless the same step also discharged
\* it), and the total absorbed is min(X, total headroom); a unit is
\* discharged only if every earlier-listed unit is empty after the step.
C9_GreedyInListOrder ==
    \A k \in DOMAIN calls :
        /\ \A i \in DOMAIN storages :
            calls[k].charged[i] > 0 =>
                \A j \in 1..(i - 1) :
                    /\ LevelBefore(k, j) + calls[k].charged[j] = storages[j].capacity
                    /\ calls[k].discharged[j] = 0 => LevelAfter(k, j) = storages[j].capacity
        /\ calls[k].decision_output.energy_added_to_storage > 0 =>
            TotalCharged(k)
              = Min(calls[k].decision_output.energy_added_to_storage, HeadroomBefore(k))
        /\ \A i \in DOMAIN storages :
            calls[k].discharged[i] > 0 =>
                \A j \in 1..(i - 1) : LevelAfter(k, j) = 0
        /\ \A i \in DOMAIN storages :
            LevelAfter(k, i) = LevelBefore(k, i) + calls[k].charged[i] - calls[k].discharged[i]

\* C9 witness: A and B of capacity 2 at level 0 and a surplus of 3 under the
\* fallback decision: A ends at 2, B at 1, nothing is sold to the grid; and
\* in a later step B is discharged with A empty.
C9_Witness ==
    /\ Len(storages) = 2
    /\ \E k \in DOMAIN calls :
        /\ calls[k].fallback
        /\ calls[k].decision_output.energy_added_to_storage = 3
        /\ calls[k].decision_output.energy_sold_to_grid = 0
        /\ LevelBefore(k, 1) = 0 /\ LevelBefore(k, 2) = 0
        /\ storages[1].capacity = 2 /\ storages[2].capacity = 2
        /\ LevelAfter(k, 1) = 2 /\ LevelAfter(k, 2) = 1
    /\ \E k \in DOMAIN calls :
        /\ calls[k].discharged[2] > 0
        /\ calls[k].discharged[1] > 0
        /\ LevelAfter(k, 1) = 0

\* The decision input of the newest call.
LastCall == calls[Len(calls)]

\* A transition that changes the step index is one simulate_step call, for
\* the index that was current, reading the state the previous one left.
StepOrder ==
    /\ step' # step =>
        /\ step < steps
        /\ step' = step + 1
        /\ Len(calls') = Len(calls) + 1
        /\ LastCall'.step = step
        /\ LastCall'.request_payload.token_balance = community_token_balance
        /\ \A i \in DOMAIN storages :
            LastCall'.request_payload.storage_levels[storages[i].name]
              = [current_level |-> storages[i].current_level,
                 capacity |-> storages[i].capacity]
    /\ step' = step => UNCHANGED <<storages, community_token_balance, calls>>

\* The calls made so far are those of the indices 0, 1, ... in this order,
\* and each decision input shows what the step before it recorded.
StepsInOrder ==
    /\ Len(calls) = step
    /\ step <= steps
    /\ \A k \in DOMAIN calls : calls[k].step = k - 1
    /\ \A k \in 1..(Len(calls) - 1) :
        /\ calls[k + 1].request_payload.token_balance = history.token_balance[k]
        /\ \A n \in DOMAIN history_storage :
            calls[k + 1].request_payload.storage_levels[n].current_level
              = history_storage[n][k]
    /\ pc = "done" => step = steps
    /\ (pc = "running" /\ step = steps) => ENABLED SimulateReturns
    /\ pc = "done" => ~ENABLED Next

\* C10: simulate runs simulate_step for step = 0, 1, ..., steps-1 in
\* strictly increasing order, each once, and then returns; the storage levels
\* and the token balance a step puts in its decision input are those the
\* previous step left, and the token balance recorded in history for step n
\* is the token_balance of the decision input of step n+1.
C10_StepsRunInOrder ==
    /\ []StepsInOrder
    /\ [][StepOrder]_vars

\* C10 witness: simulate returned after two steps, the first of which
\* changed the token balance and a storage level.
C10_Witness ==
    /\ pc = "done"
    /\ step = 2
    /\ history.token_balance[1] # R(token_balances["community"])
    /\ calls[2].request_payload.token_balance = history.token_balance[1]
    /\ \E n \in DOMAIN history_storage :
        /\ history_storage[n][1] # calls[1].request_payload.storage_levels[n].current_level
        /\ calls[2].request_payload.storage_levels[n].current_level = history_storage[n][1]

-----------------------------------------------------------------------------

\* C11: if hourly_data has fewer than `steps` entries, simulate fails at its
\* start: when the failure is reported no step has been applied, so the
\* token balance, the history and the logs are as they were initially.
\* Stated for the runs whose decisions have no negative field.
C11_ShortFeedFailsAtStart ==
    (pc = "raised" /\ Len(hourly_data) < steps /\ AllNonNegative) =>
        /\ step = 0
        /\ calls = <<>>
        /\ logs = <<>>
        /\ history = EmptyHistory
        /\ \A n \in DOMAIN history_storage : history_storage[n] = <<>>
        /\ community_token_balance = R(token_balances["community"])

\* C12: a cooperative with an empty storage list that meets a step with a
\* nonzero surplus fails; no such step is completed and recorded.  Stated
\* for the steps decided by the local fallback.
C12_NoStorageSurplusFails ==
    \A k \in DOMAIN calls :
        ~(/\ calls[k].fallback
          /\ DOMAIN calls[k].request_payload.storage_levels = {}
          /\ calls[k].energy_surplus > 0
          /\ Len(history.energy_surplus) >= k
          /\ Len(logs) >= k)

\* The decision with every negative field set to 0.
Normalized(dec) ==
    [energy_added_to_storage |-> Max(0, dec.energy_added_to_storage),
     energy_sold_to_grid |-> Max(0, dec.energy_sold_to_grid),
     energy_bought_from_storages |-> Max(0, dec.energy_bought_from_storages),
     energy_bought_from_grid |-> Max(0, dec.energy_bought_from_grid)]

\* What the loop of the current step leaves when it is run with decision dec.
LoopResult(dec) == ForStorages(LoopStart(dec), 1, StepCtx(step, dec))

\* C13: a step changes the storage levels and the token balance exactly as
\* the same step would with every negative field of its decision set to 0.
C13_NegativeFieldsNormalized ==
    [][Len(calls') = Len(calls) + 1 =>
        /\ storages' = LoopResult(Normalized(LastCall'.decision_output)).sts
        /\ community_token_balance'
             = LoopResult(Normalized(LastCall'.decision_output)).bal]_vars

-----------------------------------------------------------------------------

\* C14: within one step the charge and discharge of every storage unit are
\* finished before the first change of the token balance, and no storage
\* level changes once the token balance has been changed in that step.
\* Stated for the steps whose decision has no negative field.
C14_StorageBeforeTokens ==
    [][(Len(frame) = 1 /\ NonNegative(frame[1].dec)) =>
        /\ community_token_balance' # community_token_balance =>
             \A i \in DOMAIN storages : i <= frame[1].i
        /\ community_token_balance # frame[1].payload.token_balance =>
             storages' = storages]_vars

-----------------------------------------------------------------------------

\* The storages with every unit empty (full = FALSE) or at capacity (full = TRUE).
AtLevel(sts, full) ==
    [i \in DOMAIN sts |->
        [sts[i] EXCEPT !.current_level = IF full THEN sts[i].capacity ELSE 0]]

\* The balance the step with decision dec ends with, had the storages been sts.
BalanceWith(sts, dec) ==
    ForStorages([LoopStart(dec) EXCEPT !.sts = sts], 1, StepCtx(step, dec)).bal

\* C15: the token accounting uses the requested amounts of the decision, not
\* what the storages accepted or released: every settlement credits
\* energy_added_to_storage * p2p and debits energy_bought_from_storages * p2p
\* in full, and the balance a step ends with is the one it would end with if
\* every storage were empty, or every storage full.
C15_RequestedAmounts ==
    [][Len(calls') = Len(calls) + 1 =>
        LET d == LastCall'.decision_output
            p == LastCall'.request_payload
            mint == IF p.consumption <= p.production THEN p.consumption ELSE p.production
        IN  /\ community_token_balance' = BalanceWith(AtLevel(storages, FALSE), d)
            /\ community_token_balance' = BalanceWith(AtLevel(storages, TRUE), d)
            /\ \A j \in DOMAIN LastCall'.settle :
                 LastCall'.settle[j].balance
                   = RAdd(LastCall'.settle[j].start,
                          R(mint * token_mint_rate
                            + d.energy_added_to_storage * p.p2p_base_price
                            + d.energy_sold_to_grid * p.grid_sale_price
                            - d.energy_bought_from_storages * p.p2p_base_price))]_vars

\* A step asked to store more than the headroom and to draw more than was
\* stored, and settled tokens.
C15_Witness ==
    \E k \in DOMAIN calls :
        /\ calls[k].remaining_to_store > 0
        /\ calls[k].remaining_to_discharge > 0
        /\ Len(calls[k].settle) >= 1
        /\ calls[k].decision_output.energy_added_to_storage > SumSeq(calls[k].charged, 1)
        /\ calls[k].decision_output.energy_bought_from_storages
             > SumSeq(calls[k].discharged, 1)

-----------------------------------------------------------------------------

\* The value is a number: the division that produced it had a divisor.
Defined(x) == x[2] > 0

\* C16: with grid_purchase_price <= 0 the settlement of the grid purchase
\* never raises: the step completes with defined values, the only raise of a
\* run is the read of a missing input row; and when the insolvency branch is
\* taken at such a price the affordable energy is 0 and the balance becomes 0.
C16_NonPositivePrice ==
    /\ pc = "raised" => ~InputsReadable
    /\ \A k \in DOMAIN calls :
        calls[k].grid_price <= 0 =>
            /\ Defined(calls[k].energy_bought_from_grid)
            /\ Len(logs) >= k
            /\ Len(history.token_balance) >= k
            /\ \A j \in DOMAIN calls[k].settle :
                LET e == calls[k].settle[j]
                IN  /\ Defined(e.ebg_after) /\ Defined(e.bal_after)
                    /\ ~e.affordable => e.ebg_after = R(0) /\ e.bal_after = R(0)

\* A step priced at 0 took the insolvency branch.
C16_Witness ==
    \E k \in DOMAIN calls :
        /\ calls[k].grid_price <= 0
        /\ NonNegative(calls[k].decision_output)
        /\ \E j \in DOMAIN calls[k].settle : ~calls[k].settle[j].affordable

-----------------------------------------------------------------------------

\* The sum of the storage levels before and after step k.
TotalLevelBefore(k) == SumSeq([i \in DOMAIN storages |-> LevelBefore(k, i)], 1)
TotalLevelAfter(k) == SumSeq([i \in DOMAIN storages |-> LevelAfter(k, i)], 1)

\* C17: on a step decided by the local fallback the storages absorb and
\* release exactly what the decision requests: remaining_to_store and
\* remaining_to_discharge are 0 after the loop, and the sum of the storage
\* levels changes by energy_added_to_storage - energy_bought_from_storages.
C17_FallbackFullyApplied ==
    \A k \in DOMAIN calls :
        calls[k].fallback =>
            LET d == calls[k].decision_output
            IN  /\ calls[k].remaining_to_store = 0
                /\ calls[k].remaining_to_discharge = 0
                /\ SumSeq(calls[k].charged, 1) = d.energy_added_to_storage
                /\ SumSeq(calls[k].discharged, 1) = d.energy_bought_from_storages
                /\ TotalLevelAfter(k) = TotalLevelBefore(k) + d.energy_added_to_storage
                                          - d.energy_bought_from_storages

\* A fallback step spread a surplus over two storages, and a later fallback
\* step drew a deficit from them.
C17_Witness ==
    /\ \E k \in DOMAIN calls :
        /\ calls[k].fallback
        /\ Len(calls[k].charged) = 2
        /\ calls[k].charged[1] > 0 /\ calls[k].charged[2] > 0
    /\ \E k \in DOMAIN calls :
        /\ calls[k].fallback
        /\ calls[k].decision_output.energy_bought_from_storages > 0
        /\ SumSeq(calls[k].discharged, 1) > 0

-----------------------------------------------------------------------------

\* C18: with non-negative decision amounts (the prices of every run are
\* non-negative), the energy_bought_from_grid a step applies and writes to
\* its log entry is between 0 and the amount the decision requested.
C18_AppliedPurchaseInRange ==
    AllNonNegative =>
        \A k \in DOMAIN calls :
            /\ RLe(R(0), calls[k].energy_bought_from_grid)
            /\ RLe(calls[k].energy_bought_from_grid,
                   R(calls[k].decision_output.energy_bought_from_grid))
            /\ k <= Len(logs) => logs[k].energy_bought_from_grid >= 0

-----------------------------------------------------------------------------

\* C19: on a step decided by the local fallback, what the decision buys from
\* the storages and from the grid adds up to max(0, consumption - production),
\* and the step does not both charge and discharge: at most one of
\* energy_added_to_storage and energy_bought_from_storages is nonzero.
C19_FallbackDeficitCovered ==
    \A k \in DOMAIN calls :
        calls[k].fallback =>
            LET p == calls[k].request_payload
                d == calls[k].decision_output
            IN  /\ d.energy_bought_from_storages + d.energy_bought_from_grid
                     = Max(0, p.consumption - p.production)
                /\ d.energy_added_to_storage = 0 \/ d.energy_bought_from_storages = 0

\* A fallback step covered a deficit partly from the storages and partly from
\* the grid.
C19_Witness ==
    \E k \in DOMAIN calls :
        /\ calls[k].fallback
        /\ calls[k].decision_output.energy_bought_from_storages > 0
        /\ calls[k].decision_output.energy_bought_from_grid > 0
        /\ calls[k].request_payload.consumption > calls[k].request_payload.production

====
